---- MODULE Spec2Model ----
(***************************************************************************)
(* Workflow models of Kesin11/gha-utils: the value view (parse) and the    *)
(* position view (safeLoad + StructuredSource) of one workflow text, the   *)
(* zip that pairs them into JobModel / StepModel, and the name matching    *)
(* of JobModel.match and StepModel.match.                                  *)
(*                                                                         *)
(* A string is a sequence of one-character strings.  An optional string    *)
(* that is undefined is Undef; an optional value of another type is        *)
(* None or Some(v).                                                        *)
(***************************************************************************)
EXTENDS Integers, Sequences, FiniteSets, TLC

VARIABLES
  fileContent,   \* the FileContent handed to the WorkflowModel constructor
  pc,            \* position of the caller
  raw,           \* WorkflowModel.raw, the value view of the text
  ast,           \* WorkflowModel.ast, the position view of the text
  jobs,          \* the JobModel list the `jobs` getter returned
  stepsOf,       \* index of the job whose `steps` getter was read last
  steps,         \* the StepModel list that getter returned
  jobModels,     \* first argument of JobModel.match
  rawName,       \* second argument of JobModel.match / StepModel.match
  matchedJob,    \* what JobModel.match returned
  stepModels,    \* first argument of StepModel.match
  matchedStep,   \* what StepModel.match returned
  stepObj,       \* the Step object a StepModel is constructed from
  stepModel,     \* the StepModel constructed from stepObj
  composite,     \* what isComposite() returned for stepModel
  wfName,        \* what the `name` getter of the WorkflowModel returned
  workflowModels, \* argument of WorkflowModel.createWorkflowNameMap
  nameMap,       \* the Map createWorkflowNameMap returned
  fakeAst,       \* the StepAst handed to the CompositeStepModel constructor
  options,       \* the options handed to the Github constructor
  env,           \* the environment variables of the process
  github,        \* the fields the Github constructor set
  request,       \* a request on its way through the throttle of the client
  contentCache,  \* Github.contentCache
  call,          \* the fetch method called, with its arguments
  chunkNo,       \* the chunk the loop of that method is at
  promises,      \* the promises of that chunk, as handed to Promise.all
  results,       \* the results collected so far, at the end the return value
  requests       \* the API requests issued, open while no response has come

(* the state of the API client *)
apiVars == <<options, env, github, request,
             contentCache, call, chunkNo, promises, results, requests>>

vars == <<fileContent, pc, raw, ast, jobs, stepsOf, steps,
          jobModels, rawName, matchedJob, stepModels, matchedStep,
          stepObj, stepModel, composite, wfName, workflowModels, nameMap,
          fakeAst, apiVars>>

----------------------------------------------------------------------------
(* Bounds of the model *)

MaxJobs == 2
MaxSteps == 2
MaxJobModels == 2
MaxStepModels == 2

----------------------------------------------------------------------------
(* Values *)

Undef == <<"undefined">>
None == [def |-> FALSE]
Some(v) == [def |-> TRUE, val |-> v]

Min(a, b) == IF a <= b THEN a ELSE b

(* String.prototype.startsWith *)
StartsWith(s, p) == Len(p) <= Len(s) /\ SubSeq(s, 1, Len(p)) = p

(* String.prototype.includes *)
Includes(s, p) == \E i \in 1..(Len(s) - Len(p) + 1) : SubSeq(s, i, i + Len(p) - 1) = p

(* String.prototype.trim, over the one whitespace character of the alphabet *)
RECURSIVE TrimStart(_)
TrimStart(s) == IF s # <<>> /\ Head(s) = " " THEN TrimStart(Tail(s)) ELSE s

RECURSIVE TrimEnd(_)
TrimEnd(s) == IF s # <<>> /\ s[Len(s)] = " " THEN TrimEnd(SubSeq(s, 1, Len(s) - 1)) ELSE s

Trim(s) == TrimEnd(TrimStart(s))

(* @std/collections zip: pairs by index, as long as the shorter array *)
zip(a, b) == [i \in 1..Min(Len(a), Len(b)) |-> <<a[i], b[i]>>]

----------------------------------------------------------------------------
(* Object property order of the value view.  @std/yaml builds a mapping as  *)
(* a plain object; Object.entries lists the keys that are array indices    *)
(* first, in ascending numeric order, then the other keys in insertion     *)
(* order.  An object is modelled as its insertion-ordered list of          *)
(* [key, value] entries.                                                   *)

Digits == {"0", "1", "2", "3", "4", "5", "6", "7", "8", "9"}

DigitVal(c) ==
  CASE c = "0" -> 0 [] c = "1" -> 1 [] c = "2" -> 2 [] c = "3" -> 3 [] c = "4" -> 4
    [] c = "5" -> 5 [] c = "6" -> 6 [] c = "7" -> 7 [] c = "8" -> 8 [] c = "9" -> 9

RECURSIVE NumVal(_)
NumVal(s) == IF s = <<>> THEN 0 ELSE 10 * NumVal(SubSeq(s, 1, Len(s) - 1)) + DigitVal(s[Len(s)])

(* a canonical numeric string below 2^32 - 1; the keys of the model have at *)
(* most nine digits, which are all below that limit                        *)
IsArrayIndex(k) ==
  /\ Len(k) >= 1 /\ Len(k) <= 9
  /\ \A i \in 1..Len(k) : k[i] \in Digits
  /\ (Len(k) > 1 => k[1] # "0")

(* the entries whose key is an array index (idx = TRUE) or is not, in insertion order *)
EntriesOfKind(obj, idx) ==
  LET F[i \in 0..Len(obj)] ==
        IF i = 0 THEN <<>>
        ELSE IF IsArrayIndex(obj[i].key) = idx THEN Append(F[i - 1], obj[i]) ELSE F[i - 1]
  IN  F[Len(obj)]

SortByIndex(es) ==
  [p \in 1..Len(es) |->
     CHOOSE e \in {es[i] : i \in 1..Len(es)} :
       Cardinality({i \in 1..Len(es) : NumVal(es[i].key) < NumVal(e.key)}) = p - 1]

(* Object.entries: own property keys in OrdinaryOwnPropertyKeys order *)
ObjectEntries(obj) == SortByIndex(EntriesOfKind(obj, TRUE)) \o EntriesOfKind(obj, FALSE)

----------------------------------------------------------------------------
(* The workflow text.  A text is a sequence of lines; a line records what   *)
(* it declares, its indentation, its width in UTF-16 code units and in     *)
(* UTF-8 bytes (the line terminator not counted) and its terminator.  A    *)
(* step is written on one line as a flow mapping, optionally followed by a *)
(* continuation line (`with:`).                                            *)

NoStep == [uses |-> Undef, name |-> Undef, run |-> Undef]

(* characters of the Basic Multilingual Plane outside ASCII: one UTF-16    *)
(* code unit, three UTF-8 bytes each                                       *)
WideChars == {"U+30C1", "U+30A7"}

(* length of s in UTF-8 bytes *)
Utf8Len(s) == Len(s) + 2 * Cardinality({i \in 1..Len(s) : s[i] \in WideChars})

Line(kind, indent, str, step, width) ==
  [kind |-> kind, indent |-> indent, str |-> str, step |-> step, width |-> width,
   bytes |-> width - Len(str) + Utf8Len(str), eol |-> "LF"]

NameLine(n) == Line("name", 0, n, NoStep, 6 + Len(n))
ScalarLine == Line("scalar", 0, <<"h", "i">>, NoStep, 2)
ItemLine == Line("item", 0, <<"a">>, NoStep, 3)
InvalidLine == Line("invalid", 0, <<"[">>, NoStep, 4)
RunsLine == Line("runs", 0, <<>>, NoStep, 5)
UsingLine == Line("using", 2, <<>>, NoStep, 20)
CompositeStepsLine == Line("steps", 2, <<>>, NoStep, 8)
CompositeStepLine(st) == Line("step", 4, <<>>, st, 10)
BlankLine == Line("blank", 0, <<>>, NoStep, 0)
JobsLine == Line("jobs", 0, <<>>, NoStep, 5)
JobLine(k) == Line("job", 2, k, NoStep, 3 + Len(k))
JobNameLine(n) == Line("jobname", 4, n, NoStep, 10 + Len(n))
MatrixLine == Line("matrix", 4, <<>>, NoStep, 32)
UsesLine(u) == Line("uses", 4, u, NoStep, 10 + Len(u))
StepsLine == Line("steps", 4, <<>>, NoStep, 10)
StepLine(st) == Line("step", 6, <<>>, st, 12)
ContLine == Line("cont", 8, <<>>, NoStep, 14)

(* width of the terminator of a line: LF or CRLF *)
EolWidth(line) == IF line.eol = "CRLF" THEN 2 ELSE 1

(* offset of the first code unit of line i *)
RECURSIVE LineStart(_, _)
LineStart(text, i) ==
  IF i = 1 THEN 0 ELSE LineStart(text, i - 1) + text[i - 1].width + EolWidth(text[i - 1])

(* index of the line that holds the top-level key `kind`, 0 when there is none *)
FindTop(text, kind) ==
  IF \E i \in 1..Len(text) : text[i].kind = kind
  THEN CHOOSE i \in 1..Len(text) :
         text[i].kind = kind /\ \A k \in 1..(i - 1) : text[k].kind # kind
  ELSE 0

(* the lines of the block a job key at line i opens: up to the next job key *)
BlockEnd(text, i) ==
  IF \E k \in (i + 1)..Len(text) : text[k].kind = "job"
  THEN (CHOOSE k \in (i + 1)..Len(text) :
          text[k].kind = "job" /\ \A m \in (i + 1)..(k - 1) : text[m].kind # "job") - 1
  ELSE Len(text)

(* the line numbers in lo..hi of kind `kind`, ascending *)
LinesOfKind(text, lo, hi, kind) ==
  LET F[i \in (lo - 1)..hi] ==
        IF i = lo - 1 THEN <<>>
        ELSE IF text[i].kind = kind THEN Append(F[i - 1], i) ELSE F[i - 1]
  IN  F[hi]

(* value of the first line of kind `kind` in lo..hi, Undef when there is none *)
FieldOf(text, lo, hi, kind) ==
  LET ls == LinesOfKind(text, lo, hi, kind)
  IN  IF ls = <<>> THEN Undef ELSE text[ls[1]].str

----------------------------------------------------------------------------
(* The value view: parse(fileContent.content) of @std/yaml.  A job's value  *)
(* keeps the fields the models read; `matrix` is strategy?.matrix being    *)
(* defined.                                                                *)

StepValues(text, lo, hi) ==
  LET ls == LinesOfKind(text, lo, hi, "step")
  IN  [j \in 1..Len(ls) |-> text[ls[j]].step]

JobValue(text, i) ==
  LET hi == BlockEnd(text, i)
  IN  [name   |-> FieldOf(text, i + 1, hi, "jobname"),
       uses   |-> FieldOf(text, i + 1, hi, "uses"),
       matrix |-> LinesOfKind(text, i + 1, hi, "matrix") # <<>>,
       steps  |-> IF LinesOfKind(text, i + 1, hi, "steps") = <<>>
                  THEN None
                  ELSE Some(StepValues(text, i + 1, hi))]

(* parse throws a SyntaxError on text that is not YAML *)
parseThrows(text) == \E i \in 1..Len(text) : text[i].kind = "invalid"

(* what the document is: a text without content is null *)
RootOf(text) ==
  LET c == {i \in 1..Len(text) : text[i].kind # "blank"}
  IN  IF c = {} THEN "null"
      ELSE LET first == CHOOSE i \in c : \A k \in c : i <= k
           IN  IF text[first].kind = "scalar" THEN "scalar"
               ELSE IF text[first].kind = "item" THEN "sequence"
               ELSE "mapping"

(* `name` and `jobs` of a string or an array read as undefined *)
parse(text) ==
  LET top == FindTop(text, "jobs")
      ls  == LinesOfKind(text, top + 1, Len(text), "job")
  IN  [root |-> RootOf(text),
       name |-> FieldOf(text, 1, Len(text), "name"),
       runs |-> IF FindTop(text, "runs") = 0
                THEN None
                ELSE Some([steps |-> StepValues(text, FindTop(text, "runs") + 1, Len(text))]),
       jobs |-> IF top = 0
                THEN None
                ELSE Some([j \in 1..Len(ls) |->
                             [key |-> text[ls[j]].str, value |-> JobValue(text, ls[j])]])]

----------------------------------------------------------------------------
(* The position view: safeLoad(yaml) of yaml-ast-parser and the            *)
(* StructuredSource of the same text.  A mapping node starts at its key, a *)
(* sequence item after its "- " marker.                                    *)

StepNode(text, l) == [startPosition |-> LineStart(text, l) + text[l].indent + 2]

JobNode(text, i) ==
  LET hi == BlockEnd(text, i)
      ls == LinesOfKind(text, i + 1, hi, "step")
  IN  [key           |-> text[i].str,
       startPosition |-> LineStart(text, i) + text[i].indent,
       stepsSeq      |-> IF LinesOfKind(text, i + 1, hi, "steps") = <<>>
                         THEN None
                         ELSE Some([j \in 1..Len(ls) |-> StepNode(text, ls[j])])]

safeLoad(text) ==
  LET top == FindTop(text, "jobs")
      ls  == LinesOfKind(text, top + 1, Len(text), "job")
  IN  [jobsMap |-> IF top = 0
                   THEN None
                   ELSE Some([j \in 1..Len(ls) |-> JobNode(text, ls[j])])]

(* line starts found by taking the CR and the LF of a CRLF for a terminator each *)
StructuredSourceSplitCRLF(text) ==
  LET F[i \in 0..Len(text)] ==
        IF i = 0 THEN <<>>
        ELSE F[i - 1]
               \o (IF i > 1 /\ text[i - 1].eol = "CRLF"
                   THEN <<LineStart(text, i) - 1>>
                   ELSE <<>>)
               \o <<LineStart(text, i)>>
  IN  F[Len(text)]

(* new StructuredSource(yaml): the offsets at which the lines start; the   *)
(* LF of a CRLF belongs to the terminator the CR opened                    *)
StructuredSource(text) == [i \in 1..Len(text) |-> LineStart(text, i)]

(* StructuredSource.indexToPosition(index).line, 1-based *)
indexToLine(src, index) == Cardinality({i \in 1..Len(src) : src[i] <= index})

(* new WorkflowAst(yaml) *)
WorkflowAst(text) == [ast |-> safeLoad(text), src |-> StructuredSource(text)]

JobAst(node, src) == [ast |-> node, src |-> src]

StepAst(node, src) == [ast |-> node, src |-> src]

(* a jobAsts that never fails *)
jobAstsNeverThrows(wfAst) == FALSE

(* WorkflowAst.jobAsts(); reading .mappings of an absent `jobs` throws *)
jobAstsThrows(wfAst) == ~wfAst.ast.jobsMap.def

jobAsts(wfAst) ==
  LET ms == wfAst.ast.jobsMap.val
  IN  [j \in 1..Len(ms) |-> JobAst(ms[j], wfAst.src)]

(* stepAsts that answers a job without `steps` with an empty list *)
stepAstsEmptyList(jobAst) ==
  IF ~jobAst.ast.stepsSeq.def
  THEN Some(<<>>)
  ELSE LET items == jobAst.ast.stepsSeq.val
       IN  Some([j \in 1..Len(items) |-> StepAst(items[j], jobAst.src)])

(* JobAst.stepAsts() *)
stepAsts(jobAst) ==
  IF ~jobAst.ast.stepsSeq.def
  THEN None
  ELSE LET items == jobAst.ast.stepsSeq.val
       IN  Some([j \in 1..Len(items) |-> StepAst(items[j], jobAst.src)])

(* JobAst.startLine() and StepAst.startLine() *)
startLine(node) == indexToLine(node.src, node.ast.startPosition)

----------------------------------------------------------------------------
(* StepModel *)

(* index of the first "@" of s at or after position from, 0 when there is none *)
AtIndex(s, from) ==
  IF \E i \in from..Len(s) : s[i] = "@"
  THEN CHOOSE i \in from..Len(s) : s[i] = "@" /\ \A k \in from..(i - 1) : s[k] # "@"
  ELSE 0

(* s.split("@")[0] *)
SplitAt0(s) == IF AtIndex(s, 1) = 0 THEN s ELSE SubSeq(s, 1, AtIndex(s, 1) - 1)

(* s.split("@")[1] *)
SplitAt1(s) ==
  LET a == AtIndex(s, 1)
      b == AtIndex(s, a + 1)
  IN  IF a = 0 THEN Undef
      ELSE IF b = 0 THEN SubSeq(s, a + 1, Len(s))
      ELSE SubSeq(s, a + 1, b - 1)

(* the `uses` field the constructor sets; an empty string is falsy *)
StepUses(obj) ==
  IF obj.uses # Undef /\ obj.uses # <<>>
  THEN Some([action |-> SplitAt0(obj.uses), ref |-> SplitAt1(obj.uses)])
  ELSE None

(* a resolution that prefers the command text to the declared name *)
StepNameRunFirst(obj) ==
  IF obj.run # Undef THEN obj.run
  ELSE IF obj.name # Undef THEN obj.name
  ELSE IF StepUses(obj).def THEN StepUses(obj).val.action
  ELSE <<>>

(* obj.name ?? obj.run ?? this.uses?.action ?? "" *)
StepName(obj) ==
  IF obj.name # Undef THEN obj.name
  ELSE IF obj.run # Undef THEN obj.run
  ELSE IF StepUses(obj).def THEN StepUses(obj).val.action
  ELSE <<>>

(* new StepModel(obj, fileContent, ast) *)
StepModel(obj, stepAst) ==
  [raw |-> obj, uses |-> StepUses(obj), name |-> StepName(obj), ast |-> stepAst]

LocalRoot == <<".", "/">>

(* a test that takes every local path, the repository root included *)
isCompositeAnyLocal(sm) ==
  IF sm.raw.uses # Undef /\ StartsWith(sm.raw.uses, LocalRoot) THEN TRUE
  ELSE FALSE

(* StepModel.isComposite() *)
isComposite(sm) ==
  IF sm.raw.uses = LocalRoot THEN FALSE
  ELSE IF sm.raw.uses # Undef /\ StartsWith(sm.raw.uses, LocalRoot) THEN TRUE
  ELSE FALSE

SetUpJob == <<"S", "e", "t", " ", "u", "p", " ", "j", "o", "b">>
CompleteJob == <<"C", "o", "m", "p", "l", "e", "t", "e", " ", "j", "o", "b">>
PreRun == <<"P", "r", "e", " ", "R", "u", "n", " ">>
PostRun == <<"P", "o", "s", "t", " ", "R", "u", "n", " ">>
Pre == <<"P", "r", "e", " ">>
Run == <<"R", "u", "n", " ">>
Post == <<"P", "o", "s", "t", " ">>

DropPrefix(s, p) == SubSeq(s, Len(p) + 1, Len(s))

(* a replacement whose alternation tries "Pre " and "Post " before the longer ones *)
StripPrefixShortFirst(s) ==
  IF StartsWith(s, Pre) THEN DropPrefix(s, Pre)
  ELSE IF StartsWith(s, Post) THEN DropPrefix(s, Post)
  ELSE IF StartsWith(s, PreRun) THEN DropPrefix(s, PreRun)
  ELSE IF StartsWith(s, PostRun) THEN DropPrefix(s, PostRun)
  ELSE IF StartsWith(s, Run) THEN DropPrefix(s, Run)
  ELSE s

(* rawName.replace(/^(Pre Run |Post Run |Pre |Run |Post )/, "") *)
StripPrefix(s) ==
  IF StartsWith(s, PreRun) THEN DropPrefix(s, PreRun)
  ELSE IF StartsWith(s, PostRun) THEN DropPrefix(s, PostRun)
  ELSE IF StartsWith(s, Pre) THEN DropPrefix(s, Pre)
  ELSE IF StartsWith(s, Run) THEN DropPrefix(s, Run)
  ELSE IF StartsWith(s, Post) THEN DropPrefix(s, Post)
  ELSE s

(* the test one iteration of the loop of StepModel.match makes *)
StepMatches(sm, name, action) ==
  \/ sm.name = name
  \/ sm.uses.def /\ sm.uses.val.action = action

(* a rejection that knows one of the two synthetic names only *)
IsPseudoStepOnlyComplete(name) == name = CompleteJob

(* the synthetic step names StepModel.match rejects at once *)
IsPseudoStep(name) == name = SetUpJob \/ name = CompleteJob

(* a scan that keeps going and returns the last step that matches *)
StepModelMatchLast(models, name) ==
  IF ~models.def THEN None
  ELSE IF IsPseudoStep(name) THEN None
  ELSE LET list   == models.val
           nm     == StripPrefix(name)
           action == SplitAt0(nm)
           hits   == {i \in 1..Len(list) : StepMatches(list[i], nm, action)}
       IN  IF hits = {} THEN None
           ELSE Some(list[CHOOSE i \in hits : \A k \in hits : i >= k])

(* StepModel.match(stepModels, rawName) *)
StepModelMatch(models, name) ==
  IF ~models.def THEN None
  ELSE IF IsPseudoStep(name) THEN None
  ELSE LET list   == models.val
           nm     == StripPrefix(name)
           action == SplitAt0(nm)
           hits   == {i \in 1..Len(list) : StepMatches(list[i], nm, action)}
       IN  IF hits = {} THEN None
           ELSE Some(list[CHOOSE i \in hits : \A k \in hits : i <= k])

----------------------------------------------------------------------------
(* JobModel *)

(* new JobModel(id, obj, fileContent, ast) *)
JobModel(id, obj, jobAst) == [id |-> id, name |-> obj.name, raw |-> obj, ast |-> jobAst]

(* JobModel.isMatrix() *)
isMatrix(jm) == jm.raw.matrix

(* JobModel.steps *)
JobModelSteps(jm) ==
  LET sa == stepAsts(jm.ast)
  IN  IF ~jm.raw.steps.def \/ ~sa.def THEN <<>>
      ELSE LET z == zip(jm.raw.steps.val, sa.val)
           IN  [j \in 1..Len(z) |-> StepModel(z[j][1], z[j][2])]

IsOpenAt(s, i) == i + 2 <= Len(s) /\ s[i] = "$" /\ s[i + 1] = "{" /\ s[i + 2] = "{"
IsCloseAt(s, j) == j + 1 <= Len(s) /\ s[j] = "}" /\ s[j + 1] = "}"

(* name.replace(/\$\{\{.+\}\}/g, ""): `.+` is greedy, so the match runs from *)
(* the leftmost "${{" to the last "}}" that leaves at least one character   *)
(* between them; nothing after it can match again.                         *)
ReplaceExpr(s) ==
  LET opens == {i \in 1..Len(s) : IsOpenAt(s, i) /\ \E j \in (i + 4)..Len(s) : IsCloseAt(s, j)}
  IN  IF opens = {} THEN s
      ELSE LET i == CHOOSE x \in opens : \A y \in opens : x <= y
               closes == {j \in (i + 4)..Len(s) : IsCloseAt(s, j)}
               j == CHOOSE x \in closes : \A y \in closes : x >= y
           IN  SubSeq(s, 1, i - 1) \o SubSeq(s, j + 2, Len(s))

(* the matrix branch with the receiver and the argument of startsWith swapped *)
MatrixMatchesSwapped(jm, name) ==
  \/ StartsWith(jm.id, name)
  \/ jm.name # Undef /\ Includes(name, Trim(ReplaceExpr(jm.name)))

(* the matrix branch of the loop of JobModel.match *)
MatrixMatches(jm, name) ==
  \/ StartsWith(name, jm.id)
  \/ jm.name # Undef /\ Includes(name, Trim(ReplaceExpr(jm.name)))

(* the tests one iteration of the loop of JobModel.match makes *)
JobMatches(jm, name) ==
  \/ jm.id = name
  \/ jm.name = name
  \/ isMatrix(jm) /\ MatrixMatches(jm, name)

(* a match that falls back to the first job when the scan finds nothing *)
JobModelMatchFallback(models, name) ==
  IF ~models.def THEN None
  ELSE LET list == models.val
           hits == {i \in 1..Len(list) : JobMatches(list[i], name)}
       IN  IF list = <<>> THEN None
           ELSE IF hits = {} THEN Some(list[1])
           ELSE Some(list[CHOOSE i \in hits : \A k \in hits : i <= k])

(* JobModel.match(jobModels, rawName) *)
JobModelMatch(models, name) ==
  IF ~models.def THEN None
  ELSE LET list == models.val
           hits == {i \in 1..Len(list) : JobMatches(list[i], name)}
       IN  IF hits = {} THEN None
           ELSE Some(list[CHOOSE i \in hits : \A k \in hits : i <= k])

----------------------------------------------------------------------------
(* WorkflowModel *)

(* the constructor: this.ast = new WorkflowAst(content); this.raw = parse(content) *)
WorkflowModelThrows(fc) == parseThrows(fc.content)
WorkflowModelRaw(fc) == parse(fc.content)
WorkflowModelAst(fc) == WorkflowAst(fc.content)

(* reading `name` of null throws a TypeError *)
WorkflowModelNameThrows(r) == r.root = "null"

(* a getter that hands on what the text declares, undefined included *)
WorkflowModelNameRaw(r, fc) == r.name

(* the `name` getter: this.raw.name ?? this.fileContent.raw.path *)
WorkflowModelName(r, fc) == IF r.name # Undef THEN r.name ELSE fc.raw.path

(* the `jobs` getter throws when the text has no top-level `jobs` *)
WorkflowModelJobsThrows(r, a) == ~r.jobs.def \/ jobAstsThrows(a)

(* WorkflowModel.jobs and ReusableWorkflowModel.jobs *)
WorkflowModelJobs(r, a) ==
  LET z == zip(ObjectEntries(r.jobs.val), jobAsts(a))
  IN  [i \in 1..Len(z) |-> JobModel(z[i][1].key, z[i][1].value, z[i][2])]

----------------------------------------------------------------------------
(* Workflow texts the caller may hand in.  A text is written from a         *)
(* declaration: an optional top-level name, and under `jobs` one block per *)
(* job in file order; a job is a call job (`uses`, no `steps`) or a run    *)
(* job with a `steps` sequence (possibly empty).                           *)

JobKeys == {<<"b">>, <<"t">>, <<"2">>, <<"1", "0">>}

CheckoutStep == [uses |-> <<"a", "@", "v">>, name |-> Undef, run |-> Undef]
RunStep == [uses |-> Undef, name |-> Undef, run |-> <<"d">>]

WorkflowName == <<"C", "I">>
JobName == <<"B", " ", "$", "{", "{", "m", "}", "}">>
ReusablePath == <<".", "/", "r">>
FilePath == <<"w", ".", "y", "m", "l">>

(* k steps, alternately a `uses` step with a `with:` line and a `run` step *)
StepDecls(k, first) ==
  [j \in 1..k |-> IF (j + first) % 2 = 0
                  THEN [step |-> CheckoutStep, cont |-> TRUE]
                  ELSE [step |-> RunStep, cont |-> FALSE]]

JobBodies ==
  {[name |-> Undef, matrix |-> FALSE, steps |-> None]}
    \cup {[name |-> Undef, matrix |-> FALSE, steps |-> Some(StepDecls(k, 1))] : k \in 0..MaxSteps}
    \cup {[name |-> JobName, matrix |-> TRUE, steps |-> Some(StepDecls(k, 0))] : k \in 1..MaxSteps}

JobDecls == [key : JobKeys, body : JobBodies]

Docs ==
  {[name |-> n, hasJobs |-> TRUE, jobs |-> js] :
     n \in {Undef, WorkflowName},
     js \in {x \in UNION {[1..k -> JobDecls] : k \in 1..MaxJobs} :
               \A i, j \in 1..Len(x) : i # j => x[i].key # x[j].key}}
    \cup {[name |-> n, hasJobs |-> FALSE, jobs |-> <<>>] : n \in {Undef, WorkflowName}}

RECURSIVE RenderSteps(_)
RenderSteps(ds) ==
  IF ds = <<>> THEN <<>>
  ELSE <<StepLine(ds[1].step)>> \o (IF ds[1].cont THEN <<ContLine>> ELSE <<>>)
         \o RenderSteps(Tail(ds))

RenderJob(d) ==
  <<JobLine(d.key)>>
    \o (IF d.body.name # Undef THEN <<JobNameLine(d.body.name)>> ELSE <<>>)
    \o (IF d.body.matrix THEN <<MatrixLine>> ELSE <<>>)
    \o (IF d.body.steps.def
        THEN <<StepsLine>> \o RenderSteps(d.body.steps.val)
        ELSE <<UsesLine(ReusablePath)>>)

RECURSIVE RenderJobs(_)
RenderJobs(ds) == IF ds = <<>> THEN <<>> ELSE RenderJob(ds[1]) \o RenderJobs(Tail(ds))

Render(doc) ==
  (IF doc.name # Undef THEN <<NameLine(doc.name)>> ELSE <<>>)
    \o <<BlankLine>>
    \o (IF doc.hasJobs THEN <<JobsLine>> \o RenderJobs(doc.jobs) ELSE <<>>)

(* texts that are no mapping: nothing at all, a scalar, a sequence, and text *)
(* that is not YAML                                                        *)
OtherTexts ==
  {<<>>, <<ScalarLine>>, <<ItemLine, ItemLine>>, <<InvalidLine>>,
   <<NameLine(WorkflowName), BlankLine, JobsLine, InvalidLine>>}

FileContents ==
  {[content |-> Render(d), raw |-> [path |-> FilePath]] : d \in Docs}
    \cup {[content |-> t, raw |-> [path |-> FilePath]] : t \in OtherTexts}

----------------------------------------------------------------------------
(* Specification Spec: a caller builds a WorkflowModel from a file and      *)
(* reads its jobs and their steps.                                         *)

NoRaw == [root |-> "null", name |-> Undef, runs |-> None, jobs |-> None]
NoAst == [ast |-> [jobsMap |-> None], src |-> <<>>]

MatchIdle ==
  /\ jobModels = None
  /\ rawName = <<>>
  /\ matchedJob = None
  /\ stepModels = None
  /\ matchedStep = None

StepIdle ==
  /\ stepObj = None
  /\ stepModel = None
  /\ composite = None

NameMapIdle ==
  /\ workflowModels = <<>>
  /\ nameMap = <<>>

NoOptions == [host |-> Undef, token |-> Undef]
NoEnv == [GITHUB_API_URL |-> Undef, GITHUB_TOKEN |-> Undef]

ApiIdle ==
  /\ options = NoOptions
  /\ env = NoEnv
  /\ github = None
  /\ request = None
  /\ contentCache = <<>>
  /\ call = None
  /\ chunkNo = 0
  /\ promises = <<>>
  /\ results = <<>>
  /\ requests = <<>>

ClientIdle ==
  /\ fakeAst = None
  /\ ApiIdle

Init ==
  /\ ClientIdle
  /\ fileContent \in FileContents
  /\ pc = "start"
  /\ raw = NoRaw
  /\ ast = NoAst
  /\ jobs = <<>>
  /\ stepsOf = 0
  /\ steps = <<>>
  /\ wfName = Undef
  /\ MatchIdle
  /\ StepIdle
  /\ NameMapIdle

(* new WorkflowModel(fileContent) *)
Construct ==
  /\ pc = "start"
  /\ IF WorkflowModelThrows(fileContent)
     THEN pc' = "constructThrew" /\ UNCHANGED <<raw, ast>>
     ELSE /\ ast' = WorkflowModelAst(fileContent)
          /\ raw' = WorkflowModelRaw(fileContent)
          /\ pc' = "constructed"
  /\ UNCHANGED <<fileContent, jobs, stepsOf, steps,
                 jobModels, rawName, matchedJob, stepModels, matchedStep,
                 stepObj, stepModel, composite, wfName, workflowModels, nameMap,
                 fakeAst, apiVars>>

(* workflowModel.name *)
GetName ==
  /\ pc = "constructed"
  /\ IF WorkflowModelNameThrows(raw)
     THEN pc' = "nameThrew" /\ UNCHANGED wfName
     ELSE pc' = "named" /\ wfName' = WorkflowModelName(raw, fileContent)
  /\ UNCHANGED <<fileContent, raw, ast, jobs, stepsOf, steps,
                 jobModels, rawName, matchedJob, stepModels, matchedStep,
                 stepObj, stepModel, composite, workflowModels, nameMap,
                 fakeAst, apiVars>>

(* workflowModel.jobs *)
GetJobs ==
  /\ pc = "constructed"
  /\ IF WorkflowModelJobsThrows(raw, ast)
     THEN pc' = "threw" /\ UNCHANGED jobs
     ELSE pc' = "jobs" /\ jobs' = WorkflowModelJobs(raw, ast)
  /\ UNCHANGED <<fileContent, raw, ast, stepsOf, steps,
                 jobModels, rawName, matchedJob, stepModels, matchedStep,
                 stepObj, stepModel, composite, wfName, workflowModels, nameMap,
                 fakeAst, apiVars>>

(* workflowModel.jobs[i].steps *)
GetSteps(i) ==
  /\ pc \in {"jobs", "steps"}
  /\ i \in 1..Len(jobs)
  /\ steps' = JobModelSteps(jobs[i])
  /\ stepsOf' = i
  /\ pc' = "steps"
  /\ UNCHANGED <<fileContent, raw, ast, jobs,
                 jobModels, rawName, matchedJob, stepModels, matchedStep,
                 stepObj, stepModel, composite, wfName, workflowModels, nameMap,
                 fakeAst, apiVars>>

Next == Construct \/ GetName \/ GetJobs \/ \E i \in 1..MaxJobs : GetSteps(i)

Spec == Init /\ [][Next]_vars

----------------------------------------------------------------------------
(* What the text declares, read off the lines themselves *)

JobLineSet(text) == {l \in 1..Len(text) : text[l].kind = "job"}

(* the line of the i-th job key in file order *)
NthJobLine(text, i) ==
  CHOOSE l \in JobLineSet(text) : Cardinality({m \in JobLineSet(text) : m < l}) = i - 1

(* the line on which job key k is declared *)
LineOfKey(text, k) == CHOOSE l \in JobLineSet(text) : text[l].str = k

(* the lines of the block of the job key at line l *)
BlockOf(text, l) ==
  {m \in (l + 1)..Len(text) : \A x \in (l + 1)..m : text[x].kind # "job"}

StepLineSet(text, l) == {m \in BlockOf(text, l) : text[m].kind = "step"}

NthStepLine(text, l, j) ==
  CHOOSE m \in StepLineSet(text, l) : Cardinality({x \in StepLineSet(text, l) : x < m}) = j - 1

DeclaresSteps(text, l) == \E m \in BlockOf(text, l) : text[m].kind = "steps"

JobsRead == pc \in {"jobs", "steps"}

(* C1: for a workflow text with N jobs, WorkflowModel.jobs has length N and *)
(* jobs[i].id is the i-th key of the `jobs` mapping in file order, whatever *)
(* the keys are (keys that look like integers included).                   *)
C1_PairingIds ==
  JobsRead =>
    /\ Len(jobs) = Cardinality(JobLineSet(fileContent.content))
    /\ \A i \in 1..Len(jobs) :
         jobs[i].id = fileContent.content[NthJobLine(fileContent.content, i)].str

(* C2: for every index i of WorkflowModel.jobs, jobs[i].startLine is the    *)
(* 1-based line on which the key jobs[i].id is declared.                   *)
C2_PairingPositions ==
  JobsRead =>
    \A i \in 1..Len(jobs) :
      startLine(jobs[i].ast) = LineOfKey(fileContent.content, jobs[i].id)

(* C3: for a job whose `steps` sequence has M items, JobModel.steps has     *)
(* length M and steps[j] carries the value of the j-th item together with  *)
(* the AST node, hence the start line, of that same item.                  *)
C3_StepsPaired ==
  pc = "steps" =>
    LET text == fileContent.content
        l    == LineOfKey(text, jobs[stepsOf].id)
    IN  DeclaresSteps(text, l) =>
          /\ Len(steps) = Cardinality(StepLineSet(text, l))
          /\ \A j \in 1..Len(steps) :
               /\ steps[j].raw = text[NthStepLine(text, l, j)].step
               /\ startLine(steps[j].ast) = NthStepLine(text, l, j)

(* C4: JobModel.steps is an empty sequence when the job declares no steps   *)
(* (a call job that only has `uses`), and JobAst.stepAsts is absent for    *)
(* that same job.                                                          *)
C4_NoStepsIsEmpty ==
  LET text == fileContent.content
  IN  /\ pc = "steps" /\ ~DeclaresSteps(text, LineOfKey(text, jobs[stepsOf].id))
           => steps = <<>>
      /\ pc # "start" /\ ~jobAstsThrows(ast) =>
           \A i \in 1..Len(jobAsts(ast)) :
             ~DeclaresSteps(text, startLine(jobAsts(ast)[i]))
               => stepAsts(jobAsts(ast)[i]) = None

(* a call job was read next to a run job that has steps *)
C4_Witness ==
  /\ pc = "steps"
  /\ ~DeclaresSteps(fileContent.content, LineOfKey(fileContent.content, jobs[stepsOf].id))
  /\ steps = <<>>
  /\ stepAsts(jobs[stepsOf].ast) = None
  /\ \E i \in 1..Len(jobs) : jobs[i].raw.steps.def /\ Len(jobs[i].raw.steps.val) = 2

----------------------------------------------------------------------------
(* Specification SpecMatch: a caller holds a list of job models or of step  *)
(* models and the name the API reports, and calls JobModel.match or        *)
(* StepModel.match once.                                                   *)

MatchIds == {<<"b">>, <<"b", "d">>, <<"t">>}

OneExprName == <<"X", " ", "$", "{", "{", "m", "}", "}">>
TwoExprName ==
  <<"B", " ", "$", "{", "{", "m", "}", "}", " ", "o", " ", "$", "{", "{", "n", "}", "}">>
OnlyExprName == <<"$", "{", "{", "m", "}", "}">>
PlainName == <<"t">>

MatchNames == {Undef, OneExprName, TwoExprName, OnlyExprName, PlainName}

JobRawNames ==
  {<<"b">>, <<"b", "d">>, <<"b", " ", "(", "u", ")">>, <<"t">>,
   <<"X", " ", "u">>, <<"B", " ", "u", " ", "o", " ", "v">>, <<"z", "z">>}

NoJobNode == [key |-> <<>>, startPosition |-> 0, stepsSeq |-> None]

JobModelSet ==
  {JobModel(id, [name |-> n, uses |-> Undef, matrix |-> m, steps |-> Some(<<>>)],
            JobAst(NoJobNode, <<0>>)) :
     id \in MatchIds, n \in MatchNames, m \in BOOLEAN}

JobModelLists ==
  {None} \cup {Some(l) : l \in UNION {[1..k -> JobModelSet] : k \in 0..MaxJobModels}}

NamedStep == [uses |-> <<"c", "@", "v", "@", "w">>, name |-> <<"n">>, run |-> Undef]
SetUpStep == [uses |-> Undef, name |-> SetUpJob, run |-> <<"d">>]
PrefixNamedStep == [uses |-> <<"n", "@", "v">>, name |-> Run \o <<"d">>, run |-> Undef]

StepModelSet ==
  {StepModel(o, StepAst([startPosition |-> 0], <<0>>)) :
     o \in {CheckoutStep, RunStep, NamedStep, SetUpStep, PrefixNamedStep}}

StepModelLists ==
  {None} \cup {Some(l) : l \in UNION {[1..k -> StepModelSet] : k \in 0..MaxStepModels}}

StepRawNames ==
  {SetUpJob, CompleteJob, Run \o <<"d">>, Run \o <<"a", "@", "v">>,
   PostRun \o <<"a", "@", "v">>, Pre \o <<"a">>, <<"n">>, <<"z", "z">>,
   PreRun \o <<"d">>, Run \o Run \o <<"d">>, <<"x", " ">> \o Run \o <<"d">>,
   Post \o Pre \o <<"a">>}

InitMatch ==
  /\ ClientIdle
  /\ fileContent = [content |-> <<>>, raw |-> [path |-> FilePath]]
  /\ raw = NoRaw
  /\ ast = NoAst
  /\ jobs = <<>>
  /\ stepsOf = 0
  /\ steps = <<>>
  /\ wfName = Undef
  /\ NameMapIdle
  /\ matchedJob = None
  /\ matchedStep = None
  /\ StepIdle
  /\ \/ /\ pc = "callJob"
        /\ jobModels \in JobModelLists
        /\ rawName \in JobRawNames
        /\ stepModels = None
     \/ /\ pc = "callStep"
        /\ stepModels \in StepModelLists
        /\ rawName \in StepRawNames
        /\ jobModels = None

(* JobModel.match(jobModels, rawName) *)
MatchJob ==
  /\ pc = "callJob"
  /\ matchedJob' = JobModelMatch(jobModels, rawName)
  /\ pc' = "jobMatched"
  /\ UNCHANGED <<fileContent, raw, ast, jobs, stepsOf, steps,
                 jobModels, rawName, stepModels, matchedStep,
                 stepObj, stepModel, composite, wfName, workflowModels, nameMap,
                 fakeAst, apiVars>>

(* StepModel.match(stepModels, rawName) *)
MatchStep ==
  /\ pc = "callStep"
  /\ matchedStep' = StepModelMatch(stepModels, rawName)
  /\ pc' = "stepMatched"
  /\ UNCHANGED <<fileContent, raw, ast, jobs, stepsOf, steps,
                 jobModels, rawName, matchedJob, stepModels,
                 stepObj, stepModel, composite, wfName, workflowModels, nameMap,
                 fakeAst, apiVars>>

NextMatch == MatchJob \/ MatchStep

SpecMatch == InitMatch /\ [][NextMatch]_vars

----------------------------------------------------------------------------
(* Claims about JobModel.match and StepModel.match *)

JobList == IF jobModels.def THEN jobModels.val ELSE <<>>
StepList == IF stepModels.def THEN stepModels.val ELSE <<>>

(* C5: the rules apply in order over the list (id, then name, then the      *)
(* matrix heuristic): when some job's id equals rawName, the returned job  *)
(* has that id, even if an earlier job matches by name or by heuristic.    *)
C5_ExactIdWins ==
  pc = "jobMatched" /\ (\E i \in 1..Len(JobList) : JobList[i].id = rawName)
    => matchedJob.def /\ matchedJob.val.id = rawName

(* C6: a matrix job without a declared name is returned for every rawName   *)
(* that starts with its id, provided no earlier job of the list matches.   *)
C6_MatrixIdPrefix ==
  pc = "jobMatched" =>
    \A i \in 1..Len(JobList) :
      /\ JobList[i].raw.matrix
      /\ JobList[i].name = Undef
      /\ StartsWith(rawName, JobList[i].id)
      /\ \A k \in 1..(i - 1) : ~JobMatches(JobList[k], rawName)
      => matchedJob = Some(JobList[i])

(* an unnamed matrix job "b" answered "b (u)" from behind a job that does not match *)
C6_Witness ==
  /\ pc = "jobMatched"
  /\ rawName = <<"b", " ", "(", "u", ")">>
  /\ Len(JobList) = 2
  /\ JobList[2].raw.matrix /\ JobList[2].name = Undef /\ JobList[2].id = <<"b">>
  /\ ~JobMatches(JobList[1], rawName)
  /\ matchedJob = Some(JobList[2])

(* C7: the id-prefix rule applies to a matrix candidate only when its name  *)
(* is undefined: a matrix job with a declared name, returned for a rawName *)
(* that is neither its id nor its name, matched by the stripped-name       *)
(* substring rule.                                                         *)
C7_PrefixOnlyUnnamed ==
  pc = "jobMatched" /\ matchedJob.def
    => LET m == matchedJob.val
       IN  m.raw.matrix /\ m.name # Undef /\ m.id # rawName /\ m.name # rawName
             => Includes(rawName, Trim(ReplaceExpr(m.name)))

(* a name with every "${{ ... }}" placeholder removed on its own: from each *)
(* "${{" to the nearest "}}" that leaves at least one character between    *)
RECURSIVE StripEach(_)
StripEach(s) ==
  LET opens == {i \in 1..Len(s) : IsOpenAt(s, i) /\ \E j \in (i + 4)..Len(s) : IsCloseAt(s, j)}
  IN  IF opens = {} THEN s
      ELSE LET i == CHOOSE x \in opens : \A y \in opens : x <= y
               closes == {j \in (i + 4)..Len(s) : IsCloseAt(s, j)}
               j == CHOOSE x \in closes : \A y \in closes : x <= y
           IN  SubSeq(s, 1, i - 1) \o StripEach(SubSeq(s, j + 2, Len(s)))

(* C8: a matrix candidate with a declared name, reached by the heuristic    *)
(* (no earlier job matches; rawName is neither its id nor its name and     *)
(* does not start with its id), is returned exactly when rawName contains  *)
(* the name with each placeholder removed individually, trimmed.           *)
C8_StripEachPlaceholder ==
  pc = "jobMatched" =>
    \A i \in 1..Len(JobList) :
      /\ JobList[i].raw.matrix
      /\ JobList[i].name # Undef
      /\ JobList[i].id # rawName /\ JobList[i].name # rawName
      /\ ~StartsWith(rawName, JobList[i].id)
      /\ \A k \in 1..Len(JobList) : k # i => ~JobMatches(JobList[k], rawName)
      => (matchedJob = Some(JobList[i])
            <=> Includes(rawName, Trim(StripEach(JobList[i].name))))

(* C9: match never fails: it returns an element of the given list or        *)
(* absent, and absent when the list is undefined or empty or no element    *)
(* satisfies a rule.                                                       *)
C9_MissIsAbsent ==
  /\ pc = "jobMatched" =>
       /\ matchedJob = None \/ \E i \in 1..Len(JobList) : matchedJob = Some(JobList[i])
       /\ (\A i \in 1..Len(JobList) :
             /\ JobList[i].id # rawName
             /\ JobList[i].name # rawName
             /\ ~(JobList[i].raw.matrix /\ MatrixMatches(JobList[i], rawName)))
            => matchedJob = None
  /\ pc = "stepMatched" =>
       /\ matchedStep = None \/ \E i \in 1..Len(StepList) : matchedStep = Some(StepList[i])
       /\ (\A i \in 1..Len(StepList) :
             /\ StepList[i].name # StripPrefix(rawName)
             /\ ~(StepList[i].uses.def
                    /\ StepList[i].uses.val.action = SplitAt0(StripPrefix(rawName))))
            => matchedStep = None

(* a name no rule accepts was looked up in a list of two jobs, one a named matrix job *)
C9_Witness ==
  /\ pc = "jobMatched"
  /\ Len(JobList) = 2
  /\ JobList[1].raw.matrix /\ JobList[1].name = OneExprName
  /\ rawName = <<"z", "z">>
  /\ matchedJob = None

(* C10: StepModel.match returns absent whenever rawName is "Set up job" or  *)
(* "Complete job", whatever the step list holds.                           *)
C10_PseudoStepRejected ==
  pc = "stepMatched" /\ rawName \in {SetUpJob, CompleteJob} => matchedStep = None

(* "Set up job" was looked up in a list that holds a step of that very name *)
C10_Witness ==
  /\ pc = "stepMatched"
  /\ rawName = SetUpJob
  /\ \E i \in 1..Len(StepList) : StepList[i].name = SetUpJob
  /\ matchedStep = None

(* the five decorations the GitHub UI puts in front of a step name *)
Prefixes == {PreRun, PostRun, Pre, Run, Post}

(* s without the longest decoration it starts with, if it starts with one *)
LongestStrip(s) ==
  LET app == {p \in Prefixes : StartsWith(s, p)}
  IN  IF app = {} THEN s
      ELSE DropPrefix(s, CHOOSE p \in app : \A q \in app : Len(q) <= Len(p))

(* C11: match compares rawName with one leading decoration removed, the     *)
(* longest that applies; a second decoration and a decoration that is not  *)
(* at position 0 stay.  A step is returned exactly when some step of the   *)
(* list has that text as its name or its part before "@" as its action,    *)
(* and the returned step is such a step.                                   *)
C11_SinglePrefixStripped ==
  pc = "stepMatched" /\ stepModels.def /\ ~IsPseudoStep(rawName) =>
    LET nm == LongestStrip(rawName)
        ok(sm) == sm.name = nm \/ (sm.uses.def /\ sm.uses.val.action = SplitAt0(nm))
    IN  /\ matchedStep.def <=> \E i \in 1..Len(StepList) : ok(StepList[i])
        /\ matchedStep.def => ok(matchedStep.val)

(* "Pre Run d" found the step `run: d` behind a step named "Run d" *)
C11_Witness ==
  /\ pc = "stepMatched"
  /\ rawName = PreRun \o <<"d">>
  /\ Len(StepList) = 2
  /\ StepList[1].name = Run \o <<"d">>
  /\ StepList[2].name = <<"d">>
  /\ matchedStep = Some(StepList[2])

(* C12: match returns the lowest-index step whose name is the stripped      *)
(* rawName or whose uses.action is the stripped rawName up to its first    *)
(* "@"; a step `run: d` without a name is returned for "Run d".            *)
C12_FirstMatchWins ==
  pc = "stepMatched" /\ ~IsPseudoStep(rawName) =>
    \A i \in 1..Len(StepList) :
      /\ StepMatches(StepList[i], StripPrefix(rawName), SplitAt0(StripPrefix(rawName)))
      /\ \A k \in 1..(i - 1) :
           ~StepMatches(StepList[k], StripPrefix(rawName), SplitAt0(StripPrefix(rawName)))
      => matchedStep = Some(StepList[i])

(* "n" returned the first step, matched by its action, although the second *)
(* step carries "n" as its name                                            *)
C12_Witness ==
  /\ pc = "stepMatched"
  /\ rawName = <<"n">>
  /\ Len(StepList) = 2
  /\ StepList[1].name # <<"n">> /\ StepList[1].uses.def /\ StepList[1].uses.val.action = <<"n">>
  /\ StepList[2].name = <<"n">>
  /\ matchedStep = Some(StepList[1])

----------------------------------------------------------------------------
(* Constructing one StepModel and asking it isComposite() *)

StepTexts == {Undef, <<>>, <<"n">>}
StepCommands == {Undef, <<>>, <<"d">>}
StepRefs ==
  {Undef, <<>>, LocalRoot, LocalRoot \o <<"x">>, <<"a">>, <<"a", "@", "v">>,
   <<"c", "@", "v", "@", "w">>}

StepObjs == [uses : StepRefs, name : StepTexts, run : StepCommands]

InitStep ==
  /\ ClientIdle
  /\ fileContent = [content |-> <<>>, raw |-> [path |-> FilePath]]
  /\ raw = NoRaw
  /\ ast = NoAst
  /\ jobs = <<>>
  /\ stepsOf = 0
  /\ steps = <<>>
  /\ wfName = Undef
  /\ MatchIdle
  /\ NameMapIdle
  /\ pc = "newStep"
  /\ stepObj \in {Some(o) : o \in StepObjs}
  /\ stepModel = None
  /\ composite = None

(* new StepModel(obj, fileContent, ast) *)
NewStepModel ==
  /\ pc = "newStep"
  /\ stepModel' = Some(StepModel(stepObj.val, StepAst([startPosition |-> 0], <<0>>)))
  /\ pc' = "stepBuilt"
  /\ UNCHANGED <<fileContent, raw, ast, jobs, stepsOf, steps,
                 jobModels, rawName, matchedJob, stepModels, matchedStep,
                 stepObj, composite, wfName, workflowModels, nameMap,
                 fakeAst, apiVars>>

(* stepModel.isComposite() *)
IsComposite ==
  /\ pc = "stepBuilt"
  /\ composite' = Some(isComposite(stepModel.val))
  /\ pc' = "asked"
  /\ UNCHANGED <<fileContent, raw, ast, jobs, stepsOf, steps,
                 jobModels, rawName, matchedJob, stepModels, matchedStep,
                 stepObj, stepModel, wfName, workflowModels, nameMap,
                 fakeAst, apiVars>>

NextStep == NewStepModel \/ IsComposite

SpecStep == InitStep /\ [][NextStep]_vars

(* index of the last "@" of s, 0 when there is none *)
LastAt(s) ==
  IF \E i \in 1..Len(s) : s[i] = "@"
  THEN CHOOSE i \in 1..Len(s) : s[i] = "@" /\ \A k \in (i + 1)..Len(s) : s[k] # "@"
  ELSE 0

(* C13: a StepModel built from a step with a `uses` string has that string  *)
(* split at its last "@": action is what precedes it, ref what follows it, *)
(* and without any "@" the action is the whole string and ref undefined.   *)
C13_SplitOnLastAt ==
  stepModel.def /\ stepObj.val.uses # Undef /\ stepObj.val.uses # <<>> =>
    LET u == stepObj.val.uses
        i == LastAt(u)
    IN  /\ stepModel.val.uses.def
        /\ stepModel.val.uses.val.action = (IF i = 0 THEN u ELSE SubSeq(u, 1, i - 1))
        /\ stepModel.val.uses.val.ref = (IF i = 0 THEN Undef ELSE SubSeq(u, i + 1, Len(u)))

(* C14: the name of a StepModel is the declared name if there is one, else  *)
(* the command text, else uses.action, else the empty string; it is never  *)
(* undefined.                                                              *)
C14_NamePriority ==
  stepModel.def =>
    LET o  == stepObj.val
        sm == stepModel.val
    IN  /\ sm.name # Undef
        /\ o.name # Undef => sm.name = o.name
        /\ o.name = Undef /\ o.run # Undef => sm.name = o.run
        /\ o.name = Undef /\ o.run = Undef /\ sm.uses.def => sm.name = sm.uses.val.action
        /\ o.name = Undef /\ o.run = Undef /\ ~sm.uses.def => sm.name = <<>>

(* a step declaring name, run and uses at once got its declared name *)
C14_Witness ==
  /\ stepModel.def
  /\ stepObj.val = [uses |-> <<"a", "@", "v">>, name |-> <<"n">>, run |-> <<"d">>]
  /\ stepModel.val.name = <<"n">>

(* C15: isComposite() answers true exactly when the raw `uses` string       *)
(* starts with "./" and is not "./" itself; false without `uses`.          *)
C15_CompositeIffLocalPath ==
  pc = "asked" =>
    LET u == stepObj.val.uses
    IN  composite = Some(u # Undef /\ StartsWith(u, LocalRoot) /\ u # LocalRoot)

(* isComposite() answered false for `uses: ./` *)
C15_Witness ==
  /\ pc = "asked"
  /\ stepObj.val.uses = LocalRoot
  /\ composite = Some(FALSE)

----------------------------------------------------------------------------
(* Claims about the WorkflowModel itself *)

(* the text is a YAML mapping: it has content, all of it keys of a mapping *)
HasMappingRoot(text) ==
  /\ \E i \in 1..Len(text) : text[i].kind # "blank"
  /\ \A i \in 1..Len(text) : text[i].kind \notin {"scalar", "item", "invalid"}

NameLineSet(text) == {i \in 1..Len(text) : text[i].kind = "name"}

(* C16: the name of a WorkflowModel is the declared top-level name when the *)
(* text declares one and the path of the file when it does not; it is      *)
(* never undefined, and for a mapping the getter always answers.           *)
C16_NameDefaulting ==
  LET text == fileContent.content
  IN  /\ pc = "named" =>
           /\ wfName # Undef
           /\ NameLineSet(text) = {} => wfName = fileContent.raw.path
           /\ \A i \in NameLineSet(text) : wfName = text[i].str
      /\ pc \in {"named", "nameThrew"} /\ HasMappingRoot(text) => pc = "named"

(* a workflow with jobs and no top-level name answered with its path *)
C16_Witness ==
  /\ pc = "named"
  /\ HasMappingRoot(fileContent.content)
  /\ NameLineSet(fileContent.content) = {}
  /\ wfName = FilePath

(* C18: constructing a WorkflowModel from text that is not a YAML mapping   *)
(* (not YAML at all, or a scalar, a sequence or nothing at the root) fails *)
(* in the constructor; no object is handed to the caller.                  *)
C18_NonMappingRootFails ==
  pc # "start" /\ ~HasMappingRoot(fileContent.content) => pc = "constructThrew"

(* C19: jobAsts(), and with it the `jobs` getter, throws when the text has  *)
(* no top-level `jobs` key; with the key it returns one JobAst per entry   *)
(* of the mapping, in the order of the text.                               *)
C19_JobAstsNeedsJobs ==
  LET text == fileContent.content
  IN  pc \in {"threw", "jobs", "steps"} =>
        IF \A i \in 1..Len(text) : text[i].kind # "jobs"
        THEN pc = "threw" /\ jobAstsThrows(ast)
        ELSE /\ pc # "threw"
             /\ ~jobAstsThrows(ast)
             /\ Len(jobAsts(ast)) = Cardinality(JobLineSet(text))
             /\ \A j \in 1..Len(jobAsts(ast)) :
                  /\ jobAsts(ast)[j].ast.key = text[NthJobLine(text, j)].str
                  /\ startLine(jobAsts(ast)[j]) = NthJobLine(text, j)

(* the jobs of a named workflow without a `jobs` key were asked for *)
C19_Witness ==
  /\ pc = "threw"
  /\ HasMappingRoot(fileContent.content)
  /\ NameLineSet(fileContent.content) # {}
  /\ \A i \in 1..Len(fileContent.content) : fileContent.content[i].kind # "jobs"

----------------------------------------------------------------------------
(* Specification SpecNameMap: WorkflowModel.createWorkflowNameMap           *)

MaxWorkflowModels == 3

OtherPath == <<"v", ".", "y", "m", "l">>

(* a workflow of one call job, with top-level name n *)
NamedText(n) ==
  Render([name |-> n, hasJobs |-> TRUE,
          jobs |-> <<[key |-> <<"b">>,
                      body |-> [name |-> Undef, matrix |-> FALSE, steps |-> None]]>>])

(* new WorkflowModel(fc) *)
WorkflowModel(fc) ==
  [fileContent |-> fc, ast |-> WorkflowModelAst(fc), raw |-> WorkflowModelRaw(fc)]

(* workflows without a name, with a name, and with the path of another file as name *)
WorkflowModelSet ==
  {WorkflowModel([content |-> NamedText(n), raw |-> [path |-> p]]) :
     n \in {Undef, WorkflowName, FilePath}, p \in {FilePath, OtherPath}}

(* a Map is its entries in insertion order, no key twice *)
MapHas(m, k) == \E i \in 1..Len(m) : m[i].key = k

MapGet(m, k) == m[CHOOSE i \in 1..Len(m) : m[i].key = k].value

(* a set that leaves the value of a key the map already has *)
MapSetKeepFirst(m, k, v) ==
  IF MapHas(m, k) THEN m ELSE Append(m, [key |-> k, value |-> v])

(* Map.prototype.set: a key the map already has keeps its place and gets the new value *)
MapSet(m, k, v) ==
  IF MapHas(m, k)
  THEN [i \in 1..Len(m) |-> IF m[i].key = k THEN [key |-> k, value |-> v] ELSE m[i]]
  ELSE Append(m, [key |-> k, value |-> v])

(* new Map(entries): the entries are set one after the other *)
NewMap(entries) ==
  LET F[i \in 0..Len(entries)] ==
        IF i = 0 THEN <<>> ELSE MapSet(F[i - 1], entries[i][1], entries[i][2])
  IN  F[Len(entries)]

(* WorkflowModel.createWorkflowNameMap(workflowModels) *)
createWorkflowNameMap(models) ==
  NewMap([i \in 1..Len(models) |->
            <<WorkflowModelName(models[i].raw, models[i].fileContent), models[i]>>])

InitNameMap ==
  /\ ClientIdle
  /\ fileContent = [content |-> <<>>, raw |-> [path |-> FilePath]]
  /\ raw = NoRaw
  /\ ast = NoAst
  /\ jobs = <<>>
  /\ stepsOf = 0
  /\ steps = <<>>
  /\ wfName = Undef
  /\ MatchIdle
  /\ StepIdle
  /\ pc = "callNameMap"
  /\ workflowModels \in UNION {[1..k -> WorkflowModelSet] : k \in 0..MaxWorkflowModels}
  /\ nameMap = <<>>

CreateWorkflowNameMap ==
  /\ pc = "callNameMap"
  /\ nameMap' = createWorkflowNameMap(workflowModels)
  /\ pc' = "mapped"
  /\ UNCHANGED <<fileContent, raw, ast, jobs, stepsOf, steps,
                 jobModels, rawName, matchedJob, stepModels, matchedStep,
                 stepObj, stepModel, composite, wfName, workflowModels,
                 fakeAst, apiVars>>

NextNameMap == CreateWorkflowNameMap

SpecNameMap == InitNameMap /\ [][NextNameMap]_vars

(* the name of the i-th model handed in *)
NameOfModel(i) ==
  LET text == workflowModels[i].fileContent.content
  IN  IF NameLineSet(text) = {}
      THEN workflowModels[i].fileContent.raw.path
      ELSE text[CHOOSE l \in NameLineSet(text) : TRUE].str

(* C17: the keys of the map createWorkflowNameMap returns are exactly the   *)
(* names of the models, each once, and every name maps to the last model   *)
(* of the list that has it.                                                *)
C17_LastNameWins ==
  pc = "mapped" =>
    /\ {nameMap[i].key : i \in 1..Len(nameMap)} = {NameOfModel(i) : i \in 1..Len(workflowModels)}
    /\ \A i, j \in 1..Len(nameMap) : i # j => nameMap[i].key # nameMap[j].key
    /\ \A i \in 1..Len(workflowModels) :
         (\A k \in (i + 1)..Len(workflowModels) : NameOfModel(k) # NameOfModel(i))
           => MapGet(nameMap, NameOfModel(i)) = workflowModels[i]

(* two different workflows of one name were mapped: the name leads to the second *)
C17_Witness ==
  /\ pc = "mapped"
  /\ Len(workflowModels) = 2
  /\ NameOfModel(1) = NameOfModel(2)
  /\ workflowModels[1] # workflowModels[2]
  /\ Len(nameMap) = 1
  /\ nameMap[1].value = workflowModels[2]

----------------------------------------------------------------------------
(* Specification SpecLines: the same caller, on texts with LF and CRLF line *)
(* terminators and with names written in characters outside ASCII.         *)

WideName == <<"U+30C1", "U+30A7">>

EolModes == {"LF", "CRLF", "mixed"}

(* the text with its line terminators rewritten: all LF, all CRLF, or CRLF *)
(* on the odd lines only                                                   *)
WithEol(text, mode) ==
  [i \in 1..Len(text) |->
     [text[i] EXCEPT !.eol = IF mode = "CRLF" \/ (mode = "mixed" /\ i % 2 = 1)
                             THEN "CRLF" ELSE "LF"]]

LineKeys == {<<"b">>, <<"t">>}

LineBodies ==
  JobBodies
    \cup {[name |-> WideName, matrix |-> FALSE, steps |-> Some(StepDecls(k, 1))] :
            k \in 1..MaxSteps}

LineDocs ==
  {[name |-> n, hasJobs |-> TRUE, jobs |-> js] :
     n \in {Undef, WideName},
     js \in {x \in UNION {[1..k -> [key : LineKeys, body : LineBodies]] : k \in 1..MaxJobs} :
               \A i, j \in 1..Len(x) : i # j => x[i].key # x[j].key}}

LineContents ==
  {[content |-> WithEol(Render(d), m), raw |-> [path |-> FilePath]] :
     d \in LineDocs, m \in EolModes}

InitLines ==
  /\ ClientIdle
  /\ fileContent \in LineContents
  /\ pc = "start"
  /\ raw = NoRaw
  /\ ast = NoAst
  /\ jobs = <<>>
  /\ stepsOf = 0
  /\ steps = <<>>
  /\ wfName = Undef
  /\ MatchIdle
  /\ StepIdle
  /\ NameMapIdle

SpecLines == InitLines /\ [][Next]_vars

(* C20: startLine() of every job and of every step is the 1-based line of   *)
(* the text on which the job key, or the step item, of its AST node        *)
(* stands: a CRLF before it counts as one terminator, and characters       *)
(* outside ASCII on earlier lines change nothing.                          *)
C20_StartLineIsLine ==
  LET text == fileContent.content
  IN  /\ JobsRead =>
           \A i \in 1..Len(jobs) :
             startLine(jobs[i].ast) = LineOfKey(text, jobs[i].ast.ast.key)
      /\ pc = "steps" =>
           \A j \in 1..Len(steps) :
             startLine(steps[j].ast)
               = NthStepLine(text, LineOfKey(text, jobs[stepsOf].ast.ast.key), j)

(* a step was located behind CRLF lines and behind a line that is longer   *)
(* in bytes than in characters                                             *)
C20_Witness ==
  LET text == fileContent.content
  IN  /\ pc = "steps"
      /\ Len(steps) >= 1
      /\ startLine(steps[1].ast) > 1
      /\ startLine(steps[1].ast) = NthStepLine(text, LineOfKey(text, jobs[stepsOf].id), 1)
      /\ \E l \in 1..(startLine(steps[1].ast) - 1) : text[l].eol = "CRLF"
      /\ \E l \in 1..(startLine(steps[1].ast) - 1) : text[l].bytes > text[l].width

----------------------------------------------------------------------------
(* Further claims about StepModel.match and JobModel.match *)

(* C29: a step of the list with a declared name n, n not one of the two     *)
(* synthetic names, is found under n: match(steps, n) returns a step whose *)
(* name is n, also when n begins with one of the decorations.              *)
C29_NamedStepFoundByName ==
  /\ pc = "stepMatched"
  /\ ~IsPseudoStep(rawName)
  /\ \E i \in 1..Len(StepList) : StepList[i].raw.name = rawName
  => matchedStep.def /\ matchedStep.val.name = rawName

(* the pieces of a name outside its "${{ ... }}" placeholders, trimmed *)
RECURSIVE LiteralPieces(_)
LiteralPieces(s) ==
  LET opens == {i \in 1..Len(s) : IsOpenAt(s, i) /\ \E j \in (i + 4)..Len(s) : IsCloseAt(s, j)}
  IN  IF opens = {} THEN {Trim(s)}
      ELSE LET i == CHOOSE x \in opens : \A y \in opens : x <= y
               closes == {j \in (i + 4)..Len(s) : IsCloseAt(s, j)}
               j == CHOOSE x \in closes : \A y \in closes : x <= y
           IN  {Trim(SubSeq(s, 1, i - 1))} \cup LiteralPieces(SubSeq(s, j + 2, Len(s)))

(* rawName holds some non-empty literal text of the name *)
HoldsLiteralOf(raw_name, name) ==
  \E p \in LiteralPieces(name) : p # <<>> /\ Includes(raw_name, p)

(* C30: match returns absent when rawName is no job's id or declared name,  *)
(* starts with no matrix job's id and holds no non-empty literal text of a *)
(* matrix job's declared name; a matrix job named by a placeholder alone   *)
(* is not returned for arbitrary names.                                    *)
C30_NoUnrelatedJob ==
  /\ pc = "jobMatched"
  /\ \A i \in 1..Len(JobList) :
       /\ JobList[i].id # rawName
       /\ JobList[i].name # rawName
       /\ JobList[i].raw.matrix =>
            /\ ~StartsWith(rawName, JobList[i].id)
            /\ JobList[i].name # Undef => ~HoldsLiteralOf(rawName, JobList[i].name)
  => matchedJob = None

----------------------------------------------------------------------------
(* Specification SpecComposite: a CompositeStepModel is built from the file *)
(* of a composite action and the AST node of the step that uses it.        *)

MaxCompositeSteps == 3

ActionName == <<"A">>

(* the text of a composite action with the steps sts *)
CompositeText(sts) ==
  <<NameLine(ActionName), RunsLine, UsingLine, CompositeStepsLine>>
    \o [j \in 1..Len(sts) |-> CompositeStepLine(sts[j])]

CompositeTexts ==
  {CompositeText(sts) :
     sts \in UNION {[1..k -> {CheckoutStep, RunStep, NamedStep}] : k \in 0..MaxCompositeSteps}}
    \cup {<<NameLine(ActionName)>>}

(* the node of the calling step: it starts on line 1, 2 or 3 of the workflow *)
FakeAsts == {StepAst([startPosition |-> p], <<0, 5, 10>>) : p \in {2, 7, 12}}

(* the `steps` getter throws when the file has no `runs` *)
CompositeStepsThrows(r) == ~r.runs.def

(* a getter that gives every step a node of its own, one line further down each *)
CompositeStepsOwnNode(r, a) ==
  [j \in 1..Len(r.runs.val.steps) |->
     StepModel(r.runs.val.steps[j],
               StepAst([startPosition |-> a.ast.startPosition + 5 * (j - 1)], a.src))]

(* CompositeStepModel.steps *)
CompositeSteps(r, a) ==
  [j \in 1..Len(r.runs.val.steps) |-> StepModel(r.runs.val.steps[j], a)]

InitComposite ==
  /\ ApiIdle
  /\ fileContent \in {[content |-> t, raw |-> [path |-> FilePath]] : t \in CompositeTexts}
  /\ fakeAst \in {Some(a) : a \in FakeAsts}
  /\ pc = "newComposite"
  /\ raw = NoRaw
  /\ ast = NoAst
  /\ jobs = <<>>
  /\ stepsOf = 0
  /\ steps = <<>>
  /\ wfName = Undef
  /\ MatchIdle
  /\ StepIdle
  /\ NameMapIdle

(* new CompositeStepModel(fileContent, fakeAst) *)
NewCompositeStepModel ==
  /\ pc = "newComposite"
  /\ raw' = parse(fileContent.content)
  /\ ast' = fakeAst.val
  /\ pc' = "compositeBuilt"
  /\ UNCHANGED <<fileContent, jobs, stepsOf, steps,
                 jobModels, rawName, matchedJob, stepModels, matchedStep,
                 stepObj, stepModel, composite, wfName, workflowModels, nameMap,
                 fakeAst, apiVars>>

(* compositeStepModel.steps *)
GetCompositeSteps ==
  /\ pc = "compositeBuilt"
  /\ IF CompositeStepsThrows(raw)
     THEN pc' = "compositeThrew" /\ UNCHANGED steps
     ELSE pc' = "compositeSteps" /\ steps' = CompositeSteps(raw, ast)
  /\ UNCHANGED <<fileContent, raw, ast, jobs, stepsOf,
                 jobModels, rawName, matchedJob, stepModels, matchedStep,
                 stepObj, stepModel, composite, wfName, workflowModels, nameMap,
                 fakeAst, apiVars>>

NextComposite == NewCompositeStepModel \/ GetCompositeSteps

SpecComposite == InitComposite /\ [][NextComposite]_vars

(* C21: the steps of a CompositeStepModel are the items of `runs.steps` in  *)
(* file order, one StepModel each, and each carries the one AST node the   *)
(* constructor was given: all report the start line of that node.          *)
C21_CompositeStepsShareAst ==
  pc = "compositeSteps" =>
    LET text == fileContent.content
        ls   == {l \in 1..Len(text) : text[l].kind = "step"}
    IN  /\ Len(steps) = Cardinality(ls)
        /\ \A j \in 1..Len(steps) :
             /\ \E l \in ls : /\ Cardinality({m \in ls : m < l}) = j - 1
                               /\ steps[j].raw = text[l].step
             /\ steps[j].ast = fakeAst.val
             /\ startLine(steps[j].ast) = startLine(fakeAst.val)

(* two different steps of a composite action used on line 3 both report line 3 *)
C21_Witness ==
  /\ pc = "compositeSteps"
  /\ Len(steps) >= 2
  /\ steps[1].raw # steps[2].raw
  /\ startLine(fakeAst.val) = 3
  /\ startLine(steps[1].ast) = 3
  /\ startLine(steps[2].ast) = 3

----------------------------------------------------------------------------
(* Specification SpecGithub: the Github client is constructed, then one     *)
(* request goes through its throttle and may hit the primary rate limit    *)
(* any number of times.                                                    *)

Https == <<"h", "t", "t", "p", "s", ":", "/", "/">>
ApiV3 == <<"/", "a", "p", "i", "/", "v", "3">>
DefaultBaseUrl == Https \o <<"a", "p", "i", ".", "g", "i", "t", "h", "u", "b", ".", "c", "o", "m">>

(* a truthy string: defined and not empty *)
Truthy(str) == str # Undef /\ str # <<>>

(* a resolution that looks at the environment before the host option *)
getBaseUrlEnvFirst(host, e) ==
  IF Truthy(e.GITHUB_API_URL) THEN e.GITHUB_API_URL
  ELSE IF Truthy(host)
  THEN (IF StartsWith(host, Https) THEN host \o ApiV3 ELSE Https \o host \o ApiV3)
  ELSE DefaultBaseUrl

(* Github.getBaseUrl(host), reading GITHUB_API_URL from the environment e *)
getBaseUrl(host, e) ==
  IF Truthy(host)
  THEN (IF StartsWith(host, Https) THEN host \o ApiV3 ELSE Https \o host \o ApiV3)
  ELSE IF Truthy(e.GITHUB_API_URL) THEN e.GITHUB_API_URL
  ELSE DefaultBaseUrl

(* the fields the constructor sets *)
Github(o, e) ==
  [baseUrl |-> getBaseUrl(o.host, e),
   isGHES  |-> getBaseUrl(o.host, e) # DefaultBaseUrl,
   token   |-> IF o.token # Undef THEN o.token ELSE e.GITHUB_TOKEN]

(* throttle.onRateLimit: true asks for a retry, undefined gives up *)
onRateLimit(retryCount) == retryCount <= 2

HostName == <<"g", ".", "i", "o">>
EnvUrl == Https \o <<"e", ".", "i", "o">> \o ApiV3

Hosts == {Undef, <<>>, HostName, Https \o HostName}
EnvUrls == {Undef, <<>>, EnvUrl}
Tokens == {Undef, <<"f", "o", "o">>}

InitGithub ==
  /\ fakeAst = None
  /\ options \in [host : Hosts, token : Tokens]
  /\ env \in [GITHUB_API_URL : EnvUrls, GITHUB_TOKEN : Tokens]
  /\ github = None
  /\ request = None
  /\ contentCache = <<>>
  /\ call = None
  /\ chunkNo = 0
  /\ promises = <<>>
  /\ results = <<>>
  /\ requests = <<>>
  /\ pc = "newGithub"
  /\ fileContent = [content |-> <<>>, raw |-> [path |-> FilePath]]
  /\ raw = NoRaw
  /\ ast = NoAst
  /\ jobs = <<>>
  /\ stepsOf = 0
  /\ steps = <<>>
  /\ wfName = Undef
  /\ MatchIdle
  /\ StepIdle
  /\ NameMapIdle

(* new Github(options) *)
NewGithub ==
  /\ pc = "newGithub"
  /\ github' = Some(Github(options, env))
  /\ pc' = "client"
  /\ UNCHANGED <<fileContent, raw, ast, jobs, stepsOf, steps,
                 jobModels, rawName, matchedJob, stepModels, matchedStep,
                 stepObj, stepModel, composite, wfName, workflowModels, nameMap,
                 fakeAst, options, env, request,
                 contentCache, call, chunkNo, promises, results, requests>>

(* a request is sent through this.octokit; no retry has been made for it *)
SendRequest ==
  /\ pc = "client"
  /\ request' = Some([retryCount |-> 0, retries |-> 0])
  /\ pc' = "waiting"
  /\ UNCHANGED <<fileContent, raw, ast, jobs, stepsOf, steps,
                 jobModels, rawName, matchedJob, stepModels, matchedStep,
                 stepObj, stepModel, composite, wfName, workflowModels, nameMap,
                 fakeAst, options, env, github,
                 contentCache, call, chunkNo, promises, results, requests>>

(* the server answers the request *)
RequestSucceeds ==
  /\ pc = "waiting"
  /\ pc' = "answered"
  /\ UNCHANGED <<fileContent, raw, ast, jobs, stepsOf, steps,
                 jobModels, rawName, matchedJob, stepModels, matchedStep,
                 stepObj, stepModel, composite, wfName, workflowModels, nameMap,
                 fakeAst, apiVars>>

(* the request hits the primary rate limit: the throttle calls onRateLimit *)
(* with the retries made so far and sends the request again if it says so *)
RateLimitHit ==
  /\ pc = "waiting"
  /\ IF onRateLimit(request.val.retryCount)
     THEN /\ request' = Some([retryCount |-> request.val.retryCount + 1,
                              retries    |-> request.val.retries + 1])
          /\ pc' = "waiting"
     ELSE /\ pc' = "gaveUp"
          /\ UNCHANGED request
  /\ UNCHANGED <<fileContent, raw, ast, jobs, stepsOf, steps,
                 jobModels, rawName, matchedJob, stepModels, matchedStep,
                 stepObj, stepModel, composite, wfName, workflowModels, nameMap,
                 fakeAst, options, env, github,
                 contentCache, call, chunkNo, promises, results, requests>>

NextGithub == NewGithub \/ SendRequest \/ RequestSucceeds \/ RateLimitHit

SpecGithub == InitGithub /\ [][NextGithub]_vars

(* the host without a leading "https://" *)
BareHost(h) == IF StartsWith(h, Https) THEN SubSeq(h, Len(Https) + 1, Len(h)) ELSE h

(* C22: baseUrl is "https://<host>/api/v3" for a host option, given with or *)
(* without "https://"; without a host option it is GITHUB_API_URL of the   *)
(* environment; with neither it is "https://api.github.com".  (An empty    *)
(* host or an empty variable is constrained by no case.)                   *)
C22_BaseUrlPriority ==
  github.def =>
    LET h == options.host
        e == env.GITHUB_API_URL
    IN  /\ Truthy(h) => github.val.baseUrl = Https \o BareHost(h) \o ApiV3
        /\ h = Undef /\ Truthy(e) => github.val.baseUrl = e
        /\ h = Undef /\ e = Undef => github.val.baseUrl = DefaultBaseUrl

(* a host given with "https://" won over GITHUB_API_URL *)
C22_Witness ==
  /\ github.def
  /\ options.host = Https \o HostName
  /\ env.GITHUB_API_URL = EnvUrl
  /\ github.val.baseUrl = Https \o HostName \o ApiV3

(* C27: after a primary rate-limit error the client retries the request at  *)
(* most twice: onRateLimit asks for a retry on at most two consecutive     *)
(* hits of one request.                                                    *)
C27_RetriesAtMostTwice ==
  request.def => request.val.retries <= 2

----------------------------------------------------------------------------
(* Specification SpecFetch: a caller calls a fetch method of a Github       *)
(* client that may have fetched files before; the responses to the         *)
(* requests of the call come in any order, each a file, a directory        *)
(* listing or an error.                                                    *)

MaxRuns == 3
MaxChunkSize == 2

Owner == <<"o">>
Repo == <<"r">>
HeadSha == <<"s">>
Ref == <<"x">>
RunPaths == {<<"p">>, <<"q">>}

(* a WorkflowRun: the fields the fetch methods read *)
WorkflowRun(i, path) ==
  [id |-> i, path |-> path, head_sha |-> HeadSha,
   repository |-> [owner |-> [login |-> Owner], name |-> Repo]]

WorkflowRunLists ==
  {[i \in 1..Len(ps) |-> WorkflowRun(i, ps[i])] :
     ps \in UNION {[1..k -> RunPaths] : k \in 0..MaxRuns}}

ContentMethods == {"fetchWorkflowFiles", "fetchWorkflowFilesByRef"}
ChunkedMethods == {"fetchWorkflowFilesByRef", "fetchWorkflowJobs", "fetchWorkflowRunUsages"}

(* the params object a content method hands to fetchContent for a run *)
ParamsOf(c, run) ==
  [owner |-> run.repository.owner.login,
   repo  |-> run.repository.name,
   path  |-> run.path,
   ref   |-> IF c.method = "fetchWorkflowFiles" THEN run.head_sha ELSE c.ref]

Quoted(str) == <<"\"">> \o str \o <<"\"">>

(* JSON.stringify(params): the properties in the order the object literal  *)
(* of the caller lists them (owner, repo, path, ref)                       *)
JSONStringify(params) ==
  <<"{">> \o Quoted(<<"o", "w", "n", "e", "r">>) \o <<":">> \o Quoted(params.owner)
    \o <<",">> \o Quoted(<<"r", "e", "p", "o">>) \o <<":">> \o Quoted(params.repo)
    \o <<",">> \o Quoted(<<"p", "a", "t", "h">>) \o <<":">> \o Quoted(params.path)
    \o <<",">> \o Quoted(<<"r", "e", "f">>) \o <<":">> \o Quoted(params.ref)
    \o <<"}">>

(* new FileContent(res.data) for the file the params name *)
FileContent(params) ==
  [raw |-> [type |-> "file", path |-> params.path],
   content |-> params.path \o <<"@">> \o params.ref]

(* chunk(workflowRuns, chunkSize); fetchWorkflowFiles hands all runs to one Promise.all *)
NumChunks(c) ==
  IF c.method = "fetchWorkflowFiles" THEN 1
  ELSE (Len(c.workflowRuns) + c.chunkSize - 1) \div c.chunkSize

ChunkFirst(c, k) ==
  IF c.method = "fetchWorkflowFiles" THEN 1 ELSE (k - 1) * c.chunkSize + 1

(* a chunk that takes every run that is left *)
ChunkLastUnbounded(c, k) == Len(c.workflowRuns)

ChunkLast(c, k) ==
  IF c.method = "fetchWorkflowFiles" THEN Len(c.workflowRuns)
  ELSE Min(k * c.chunkSize, Len(c.workflowRuns))

(* a fetchContent that never looks into the cache *)
fetchContentNoCache(c, i, cache) ==
  [run |-> i, state |-> "pending", value |-> None]

(* the promise fetchContent returns at once: settled from the cache, or    *)
(* pending on a request                                                    *)
fetchContentPromise(c, i, cache) ==
  LET key == JSONStringify(ParamsOf(c, c.workflowRuns[i]))
  IN  IF c.method \in ContentMethods /\ \E e \in 1..Len(cache) : cache[e].key = key
      THEN [run |-> i, state |-> "fulfilled",
            value |-> Some(cache[CHOOSE e \in 1..Len(cache) : cache[e].key = key].value)]
      ELSE [run |-> i, state |-> "pending", value |-> None]

(* chunk.map(...): the promises of chunk k *)
ChunkPromises(c, k, cache) ==
  [j \in 1..(ChunkLast(c, k) - ChunkFirst(c, k) + 1) |->
     fetchContentPromise(c, ChunkFirst(c, k) + j - 1, cache)]

Settled(ps) == \A j \in 1..Len(ps) : ps[j].state = "fulfilled"

(* the values in the opposite order *)
ValuesOfReversed(ps) == [j \in 1..Len(ps) |-> ps[Len(ps) + 1 - j].value]

ValuesOf(ps) == [j \in 1..Len(ps) |-> ps[j].value]

(* the loop from chunk k on, up to the first await that has to wait *)
RECURSIVE RunLoop(_, _, _, _)
RunLoop(c, k, res, cache) ==
  IF k > NumChunks(c)
  THEN [pc |-> "returned", chunkNo |-> k - 1, promises |-> <<>>, results |-> res]
  ELSE LET ps == ChunkPromises(c, k, cache)
       IN  IF Settled(ps)
           THEN RunLoop(c, k + 1, res \o ValuesOf(ps), cache)
           ELSE [pc |-> "running", chunkNo |-> k, promises |-> ps, results |-> res]

(* the requests the pending promises of a chunk have issued *)
RequestsOf(ps, k) ==
  LET F[j \in 0..Len(ps)] ==
        IF j = 0 THEN <<>>
        ELSE IF ps[j].state = "pending"
             THEN Append(F[j - 1], [run |-> ps[j].run, chunk |-> k,
                                    open |-> TRUE, outcome |-> "none"])
             ELSE F[j - 1]
  IN  F[Len(ps)]

FetchCalls ==
  {[method |-> m, workflowRuns |-> rs, ref |-> Ref, chunkSize |-> n] :
     m \in ContentMethods \cup ChunkedMethods, rs \in WorkflowRunLists, n \in 1..MaxChunkSize}

(* the cache of a client: empty after construction, or holding the file    *)
(* an earlier fetchContent has fetched                                     *)
CacheOf(params) == <<[key |-> JSONStringify(params), value |-> FileContent(params)]>>

EarlierParams ==
  {[owner |-> Owner, repo |-> Repo, path |-> <<"p">>, ref |-> r] : r \in {HeadSha, Ref}}

Caches == {<<>>} \cup {CacheOf(params) : params \in EarlierParams}

InitFetch ==
  /\ fakeAst = None
  /\ options \in [host : {Undef, HostName}, token : {Undef}]
  /\ env = NoEnv
  /\ github = Some(Github(options, env))
  /\ request = None
  /\ contentCache \in Caches
  /\ call = None
  /\ chunkNo = 0
  /\ promises = <<>>
  /\ results = <<>>
  /\ requests = <<>>
  /\ pc = "idle"
  /\ fileContent = [content |-> <<>>, raw |-> [path |-> FilePath]]
  /\ raw = NoRaw
  /\ ast = NoAst
  /\ jobs = <<>>
  /\ stepsOf = 0
  /\ steps = <<>>
  /\ wfName = Undef
  /\ MatchIdle
  /\ StepIdle
  /\ NameMapIdle

(* the caller calls a fetch method: the method runs up to its first await  *)
(* that has to wait, or to its end                                         *)
Call(c) ==
  /\ pc = "idle"
  /\ call' = Some(c)
  /\ IF c.method = "fetchWorkflowRunUsages" /\ github.val.isGHES
     THEN /\ pc' = "unsupported"
          /\ chunkNo' = 0
          /\ promises' = <<>>
          /\ results' = <<>>
          /\ requests' = <<>>
     ELSE LET loop == RunLoop(c, 1, <<>>, contentCache)
          IN  /\ pc' = loop.pc
              /\ chunkNo' = loop.chunkNo
              /\ promises' = loop.promises
              /\ results' = loop.results
              /\ requests' = RequestsOf(loop.promises, loop.chunkNo)
  /\ UNCHANGED <<fileContent, raw, ast, jobs, stepsOf, steps,
                 jobModels, rawName, matchedJob, stepModels, matchedStep,
                 stepObj, stepModel, composite, wfName, workflowModels, nameMap,
                 fakeAst, options, env, github, request, contentCache>>

Outcomes == {"file", "directory", "error"}

(* a fetchContent without its catch handler: a failed request rejects *)
SettledPromiseNoCatch(c, rq, outcome) ==
  IF outcome = "error"
  THEN [run |-> rq.run, state |-> "rejected", value |-> None]
  ELSE [run |-> rq.run, state |-> "fulfilled",
        value |-> IF outcome = "file"
                  THEN Some(FileContent(ParamsOf(c, c.workflowRuns[rq.run])))
                  ELSE None]

(* the promise of request rq after its response: the handlers of           *)
(* fetchContent turn everything but a file into undefined; the other       *)
(* methods hand on the data, or the rejection                              *)
SettledPromise(c, rq, outcome) ==
  IF c.method \in ContentMethods
  THEN [run |-> rq.run, state |-> "fulfilled",
        value |-> IF outcome = "file"
                  THEN Some(FileContent(ParamsOf(c, c.workflowRuns[rq.run])))
                  ELSE None]
  ELSE IF outcome = "error"
  THEN [run |-> rq.run, state |-> "rejected", value |-> None]
  ELSE [run |-> rq.run, state |-> "fulfilled", value |-> Some(rq.run)]

(* a fetchContent that stores nothing *)
CacheAfterNoStore(c, rq, outcome, cache) == cache

(* the cache after the response: fetchContent stores a file it fetched *)
CacheAfter(c, rq, outcome, cache) ==
  IF c.method \in ContentMethods /\ outcome = "file"
  THEN LET key == JSONStringify(ParamsOf(c, c.workflowRuns[rq.run]))
           fc  == FileContent(ParamsOf(c, c.workflowRuns[rq.run]))
       IN  IF \E e \in 1..Len(cache) : cache[e].key = key
           THEN [e \in 1..Len(cache) |->
                   IF cache[e].key = key THEN [key |-> key, value |-> fc] ELSE cache[e]]
           ELSE Append(cache, [key |-> key, value |-> fc])
  ELSE cache

(* the response to request r arrives; when it settles the Promise.all of   *)
(* the running method, the method goes on to its next await or to its end  *)
Respond(r, outcome) ==
  /\ r \in 1..Len(requests)
  /\ requests[r].open
  /\ outcome \in Outcomes
  /\ IF pc # "running"
     THEN /\ requests' = [requests EXCEPT ![r].open = FALSE, ![r].outcome = outcome]
          /\ UNCHANGED <<pc, contentCache, chunkNo, promises, results>>
     ELSE LET c     == call.val
              cache == CacheAfter(c, requests[r], outcome, contentCache)
              ps    == [j \in 1..Len(promises) |->
                          IF promises[j].run = requests[r].run
                          THEN SettledPromise(c, requests[r], outcome)
                          ELSE promises[j]]
              rs    == [requests EXCEPT ![r].open = FALSE, ![r].outcome = outcome]
          IN  /\ contentCache' = cache
              /\ IF \E j \in 1..Len(ps) : ps[j].state = "rejected"
                 THEN /\ pc' = "rejected"
                      /\ promises' = ps
                      /\ requests' = rs
                      /\ UNCHANGED <<chunkNo, results>>
                 ELSE IF Settled(ps)
                 THEN LET loop == RunLoop(c, chunkNo + 1, results \o ValuesOf(ps), cache)
                      IN  /\ pc' = loop.pc
                          /\ chunkNo' = loop.chunkNo
                          /\ promises' = loop.promises
                          /\ results' = loop.results
                          /\ requests' = rs \o RequestsOf(loop.promises, loop.chunkNo)
                 ELSE /\ promises' = ps
                      /\ requests' = rs
                      /\ UNCHANGED <<pc, chunkNo, results>>
  /\ UNCHANGED <<fileContent, raw, ast, jobs, stepsOf, steps,
                 jobModels, rawName, matchedJob, stepModels, matchedStep,
                 stepObj, stepModel, composite, wfName, workflowModels, nameMap,
                 fakeAst, options, env, github, request, call>>

NextFetch ==
  \/ \E c \in FetchCalls : Call(c)
  \/ \E r \in 1..MaxRuns, outcome \in Outcomes : Respond(r, outcome)

SpecFetch == InitFetch /\ [][NextFetch]_vars

IsContentCall == call.def /\ call.val.method \in ContentMethods

(* the cache key and the file of run i of call c *)
KeyOf(c, i) == JSONStringify(ParamsOf(c, c.workflowRuns[i]))

FileOf(c, i) == FileContent(ParamsOf(c, c.workflowRuns[i]))

(* the settled value fetchContent has produced for run i, where there is one *)
HasValueOf(i, ps, res) ==
  \/ i <= Len(res)
  \/ \E j \in 1..Len(ps) : ps[j].run = i /\ ps[j].state = "fulfilled"

ValueOf(i, ps, res) ==
  IF i <= Len(res) THEN res[i]
  ELSE ps[CHOOSE j \in 1..Len(ps) : ps[j].run = i].value

(* C23: fetchContent issues no request for params the cache holds and       *)
(* returns the cached FileContent; a file it has fetched is in the cache   *)
(* under its params, so that no request for the same params is issued      *)
(* after that response.                                                    *)
C23_CacheHitIssuesNoRequest ==
  [][IsContentCall' =>
       LET c == call'.val
       IN  /\ \A r \in (Len(requests) + 1)..Len(requests') :
                ~MapHas(contentCache', KeyOf(c, requests'[r].run))
           /\ \A i \in 1..Len(c.workflowRuns) :
                (/\ MapHas(contentCache, KeyOf(c, i))
                 /\ HasValueOf(i, promises', results')
                 /\ \A r \in 1..Len(requests') : requests'[r].run # i)
                  => ValueOf(i, promises', results') = Some(MapGet(contentCache, KeyOf(c, i)))
           /\ \A r \in 1..Len(requests') :
                requests'[r].outcome = "file" =>
                  /\ MapHas(contentCache', KeyOf(c, requests'[r].run))
                  /\ MapGet(contentCache', KeyOf(c, requests'[r].run)) = FileOf(c, requests'[r].run)
                  /\ \A q \in (Len(requests) + 1)..Len(requests') :
                       KeyOf(c, requests'[q].run) # KeyOf(c, requests'[r].run)
  ]_vars

(* a run of a later chunk was served from the cache a request of an        *)
(* earlier chunk has filled                                                *)
C23_Witness ==
  /\ IsContentCall
  /\ pc = "returned"
  /\ \E r \in 1..Len(requests), i \in 1..Len(results) :
       /\ requests[r].outcome = "file"
       /\ requests[r].run # i
       /\ KeyOf(call.val, i) = KeyOf(call.val, requests[r].run)
       /\ \A q \in 1..Len(requests) : requests[q].run # i
       /\ results[i] = Some(FileOf(call.val, i))

NotAFile == {"directory", "error"}

(* C24: when the request of fetchContent fails or is answered by a         *)
(* directory listing, the promise resolves to undefined, nothing rejects,  *)
(* and the content cache stays as it was.                                  *)
C24_NotFoundIsUndefined ==
  [][IsContentCall' =>
       /\ pc' # "rejected"
       /\ \A j \in 1..Len(promises') : promises'[j].state # "rejected"
       /\ \A r \in 1..Len(requests) :
            (requests[r].open /\ requests'[r].outcome \in NotAFile) =>
              /\ contentCache' = contentCache
              /\ HasValueOf(requests[r].run, promises', results')
              /\ ValueOf(requests[r].run, promises', results') = None
  ]_vars

(* one request of a chunk failed and another was answered by a directory,  *)
(* and the method has returned with an empty cache                         *)
C24_Witness ==
  /\ IsContentCall
  /\ pc = "returned"
  /\ contentCache = <<>>
  /\ \E r, q \in 1..Len(requests) :
       /\ requests[r].outcome = "error"
       /\ requests[q].outcome = "directory"
       /\ results[requests[r].run] = None
       /\ results[requests[q].run] = None

InFlight == {r \in 1..Len(requests) : requests[r].open}

(* C25: while fetchWorkflowFilesByRef, fetchWorkflowJobs or                 *)
(* fetchWorkflowRunUsages runs, at most chunkSize requests are in flight,  *)
(* and a request of a later chunk exists only when every request of the   *)
(* chunks before it has completed.                                         *)
C25_ChunkLimitsConcurrency ==
  (call.def /\ call.val.method \in ChunkedMethods) =>
    /\ Cardinality(InFlight) <= call.val.chunkSize
    /\ \A r, q \in 1..Len(requests) :
         requests[r].chunk < requests[q].chunk => ~requests[r].open

(* the second chunk of a call with more runs than chunkSize is in flight *)
C25_Witness ==
  /\ call.def
  /\ call.val.method \in ChunkedMethods
  /\ Len(call.val.workflowRuns) > call.val.chunkSize
  /\ pc = "running"
  /\ chunkNo = 2
  /\ \E r \in InFlight : requests[r].chunk = 2
  /\ \E r \in 1..Len(requests) : requests[r].chunk = 1

(* a call of fetchWorkflowFilesByRef whose runs all name the same file *)
SameFileByRef(c) ==
  /\ c.def
  /\ c.val.method = "fetchWorkflowFilesByRef"
  /\ Len(c.val.workflowRuns) >= 1
  /\ \A i \in 1..Len(c.val.workflowRuns) : c.val.workflowRuns[i].path = c.val.workflowRuns[1].path

AllFetched(rs) == \A r \in 1..Len(rs) : rs[r].outcome \in {"none", "file"}

(* C26: fetchWorkflowFilesByRef, called with an empty cache for N runs of  *)
(* the same file, issues min(N, chunkSize) requests for its first chunk    *)
(* and, when these fetch the file, no request after them.                  *)
C26_SameFileRequests ==
  [][SameFileByRef(call') =>
       /\ (pc = "idle" /\ contentCache = <<>>) =>
            Len(requests') = Min(Len(call'.val.workflowRuns), call'.val.chunkSize)
       /\ (pc = "running" /\ AllFetched(requests')) => Len(requests') = Len(requests)
  ]_vars

(* three runs of the same file in chunks of two: two requests, and the     *)
(* third run served from the cache                                         *)
C26_Witness ==
  /\ SameFileByRef(call)
  /\ pc = "returned"
  /\ Len(call.val.workflowRuns) > call.val.chunkSize
  /\ call.val.chunkSize >= 2
  /\ Len(requests) = call.val.chunkSize
  /\ \A r \in 1..Len(requests) : requests[r].outcome = "file"
  /\ Len(contentCache) = 1
  /\ Len(results) = Len(call.val.workflowRuns)

(* the request fetchContent has issued for run i failed to fetch a file *)
FetchFailed(i) ==
  \E r \in 1..Len(requests) : requests[r].run = i /\ requests[r].outcome \in NotAFile

(* C28: fetchWorkflowFiles and fetchWorkflowFilesByRef return one entry    *)
(* per run, in the order of the runs: entry i is the file of run i, or     *)
(* undefined when the fetch for run i itself failed, whatever the order    *)
(* of the responses and whatever the chunkSize.                            *)
C28_ResultsAligned ==
  IsContentCall =>
    /\ pc = "returned" => Len(results) = Len(call.val.workflowRuns)
    /\ Len(results) <= Len(call.val.workflowRuns)
    /\ \A i \in 1..Len(results) :
         results[i] = IF FetchFailed(i) THEN None ELSE Some(FileOf(call.val, i))

(* runs of different files, the response for a later run before the one    *)
(* for an earlier run of the same chunk, one fetch failed                  *)
C28_Witness ==
  /\ IsContentCall
  /\ pc = "returned"
  /\ Len(results) >= 2
  /\ \E i, j \in 1..Len(results) :
       /\ i < j
       /\ call.val.workflowRuns[i].path # call.val.workflowRuns[j].path
       /\ FetchFailed(i)
       /\ results[i] = None
       /\ results[j] = Some(FileOf(call.val, j))

====
